---- MODULE Spec2Model ----
(***************************************************************************)
(* A model of src/src/merger.py (pycube): the exclusive -> inclusive       *)
(* conversion over a call tree, the metric-set check, the multi-run merge  *)
(* and the metric selection.                                               *)
(***************************************************************************)
EXTENDS Integers, Sequences, FiniteSets, TLC

VARIABLES
    pc,          \* "start" | "converted" | "reconverted"
    parent,      \* the call tree: node -> parent node (None for the root)
    order,       \* the order iterate_on_call_tree yields the nodes in
    rowIsView,   \* whether df.loc[id, :] hands out a view of the frame's data
    df,          \* the exclusive table passed in, as it is now
    df0,         \* the exclusive table as it was when it was passed in
    op,          \* the conversion that ran: "none" | "series" | "df"
    col,         \* the column of df passed as the series (series conversion)
    res,         \* what the conversion returned
    res2,        \* what the conversion of res returned
    column_sets, \* the metric-name sets given to check_column_sets
    checked,     \* what check_column_sets did
    runs,        \* the frames process_cubex returns for profile_files
    merged,      \* what process_multi returned
    selected     \* what select_metrics returned, and for which request

aggVars == <<parent, order, rowIsView, df, df0, op, col, res, res2>>
colsVars == <<column_sets, checked>>
mergeVars == <<runs, merged, selected>>
vars == <<pc, aggVars, colsVars, mergeVars>>

----------------------------------------------------------------------------
(* Bounds *)

MaxNodes == 4
MaxRuns == 3

\* the metric names check_column_sets is tried on
ColNames == {"a", "b", "c", "d", "e"}

\* the values a cell of an exclusive series holds
Values == {0 - 1, 0, 1, 2}
\* the values a cell of an exclusive frame holds
DfValues == {1, 2}
\* the (metric, Thread ID) columns of an exclusive frame
Cols == {"t0", "t1"}

----------------------------------------------------------------------------
(* Cells: a number <<x>>, or NaN <<>> (no measurement) *)

NaN == <<>>
Num(x) == <<x>>
IsNaN(c) == c = NaN

\* float addition: NaN is absorbing
CellAdd(a, b) == IF IsNaN(a) \/ IsNaN(b) THEN NaN ELSE Num(a[1] + b[1])

\* Series + Series over the same index
RowAdd(r, s) == [c \in DOMAIN r |-> CellAdd(r[c], s[c])]

None == 0 - 1

----------------------------------------------------------------------------
(* The call tree *)

Nodes == DOMAIN parent
Root == 0

RECURSIVE SortedSeq(_)
SortedSeq(S) ==
    IF S = {} THEN <<>>
    ELSE LET m == CHOOSE x \in S : \A y \in S : x <= y
         IN <<m>> \o SortedSeq(S \ {m})

\* root.children, in order
children(v) == SortedSeq({u \in Nodes : parent[u] = v})

\* root.cnode_id
cnode_id(v) == v

RECURSIVE Preorder(_), PreorderAll(_, _)
Preorder(v) == <<v>> \o PreorderAll(children(v), 1)
PreorderAll(kids, i) ==
    IF i > Len(kids) THEN <<>>
    ELSE Preorder(kids[i]) \o PreorderAll(kids, i + 1)

RECURSIVE Postorder(_), PostorderAll(_, _)
Postorder(v) == PostorderAll(children(v), 1) \o <<v>>
PostorderAll(kids, i) ==
    IF i > Len(kids) THEN <<>>
    ELSE Postorder(kids[i]) \o PostorderAll(kids, i + 1)

\* ct.iterate_on_call_tree(call_tree)
iterate_on_call_tree(v) == IF order = "pre" THEN Preorder(v) ELSE Postorder(v)

----------------------------------------------------------------------------
(* convert_series_to_inclusive *)

\* (mutant) the child's aggregate is dropped
series_iadd_dropped(value, x) == value

\* value += aggregate(child), value a scalar read from the series
series_iadd(value, x) == CellAdd(value, x)

\* aggregate(root) of convert_series_to_inclusive.  calls counts the
\* invocations of aggregate so far; err is the KeyError of series.loc
RECURSIVE series_aggregate(_, _, _), series_loop(_, _, _, _)
series_aggregate(series, root, calls) ==
    IF cnode_id(root) \notin DOMAIN series
    THEN [err |-> TRUE, val |-> NaN, calls |-> calls + 1]
    ELSE series_loop(series, children(root), 1,
             [err |-> FALSE, val |-> series[cnode_id(root)], calls |-> calls + 1])
series_loop(series, kids, i, s) ==
    IF i > Len(kids) THEN s
    ELSE LET r == series_aggregate(series, kids[i], s.calls)
         IN IF r.err THEN r
            ELSE series_loop(series, kids, i + 1,
                     [err |-> FALSE, val |-> series_iadd(s.val, r.val),
                      calls |-> r.calls])

\* [(node.cnode_id, aggregate(node)) for node in ct.iterate_on_call_tree(..)]
RECURSIVE series_collect(_, _, _, _)
series_collect(series, nodes, i, acc) ==
    IF i > Len(nodes) \/ acc.err THEN acc
    ELSE LET r == series_aggregate(series, nodes[i], acc.calls)
         IN series_collect(series, nodes, i + 1,
                [err |-> r.err,
                 tbl |-> IF r.err THEN acc.tbl
                         ELSE acc.tbl @@ (cnode_id(nodes[i]) :> r.val),
                 calls |-> r.calls])

convert_series_to_inclusive(series, call_tree) ==
    LET a == series_collect(series, iterate_on_call_tree(call_tree), 1,
                 [err |-> FALSE, tbl |-> <<>>, calls |-> 0])
    IN [err |-> a.err, tbl |-> IF a.err THEN <<>> ELSE a.tbl, calls |-> a.calls]

----------------------------------------------------------------------------
(* convert_df_to_inclusive *)

\* value = df_convertible.loc[root.cnode_id, :] is a row Series; value += x
\* computes the sum and, when the row is a view of the frame's data, writes
\* it through into the frame tbl
df_iadd(tbl, id, value, x) ==
    LET nv == RowAdd(value, x)
    IN [val |-> nv,
        tbl |-> IF rowIsView THEN [tbl EXCEPT ![id] = nv] ELSE tbl]

\* aggregate(root) of convert_df_to_inclusive.  s.tbl is the frame
\* df_convertible as it is now
RECURSIVE df_aggregate(_, _), df_loop(_, _, _, _)
df_aggregate(root, s) ==
    IF cnode_id(root) \notin DOMAIN s.tbl
    THEN [err |-> TRUE, val |-> <<>>, tbl |-> s.tbl, calls |-> s.calls + 1]
    ELSE df_loop(root, children(root), 1,
             [err |-> FALSE, val |-> s.tbl[cnode_id(root)], tbl |-> s.tbl,
              calls |-> s.calls + 1])
df_loop(root, kids, i, s) ==
    IF i > Len(kids) THEN s
    ELSE LET r == df_aggregate(kids[i], s)
         IN IF r.err THEN r
            ELSE LET w == df_iadd(r.tbl, cnode_id(root), s.val, r.val)
                 IN df_loop(root, kids, i + 1,
                        [err |-> FALSE, val |-> w.val, tbl |-> w.tbl,
                         calls |-> r.calls])

\* objs = [aggregate(n) for n in ct.iterate_on_call_tree(call_tree)]
RECURSIVE df_collect(_, _, _)
df_collect(nodes, i, acc) ==
    IF i > Len(nodes) \/ acc.err THEN acc
    ELSE LET r == df_aggregate(nodes[i], acc)
         IN df_collect(nodes, i + 1,
                [err |-> r.err,
                 objs |-> IF r.err THEN acc.objs
                          ELSE acc.objs @@ (cnode_id(nodes[i]) :> r.val),
                 tbl |-> r.tbl,
                 calls |-> r.calls])

\* pd.concat(objs, keys).unstack(..): reads the collected rows after every
\* aggregate has run; a row that is a view shows the frame's data as it is then
convert_df_to_inclusive(df_convertible, call_tree) ==
    LET a == df_collect(iterate_on_call_tree(call_tree), 1,
                 [err |-> FALSE, objs |-> <<>>, tbl |-> df_convertible,
                  calls |-> 0])
    IN [err |-> a.err,
        tbl |-> IF a.err THEN <<>>
                ELSE [v \in DOMAIN a.objs |->
                        IF rowIsView THEN a.tbl[v] ELSE a.objs[v]],
        calls |-> a.calls,
        input |-> a.tbl]

----------------------------------------------------------------------------
(* Inputs *)

\* the call trees of n nodes: node 0 is the root, a parent precedes its children
TreeSet(n) ==
    {p \in [0 .. n - 1 -> None .. n - 2] :
        /\ p[0] = None
        /\ \A i \in 1 .. n - 1 : p[i] \in 0 .. i - 1}

\* frames over the rows R whose column c holds cells from C[c]
Frames(R, C) == [R -> {r \in [DOMAIN C -> UNION {C[c] : c \in DOMAIN C}] :
                         \A c \in DOMAIN C : r[c] \in C[c]}]

Nums(S) == {Num(x) : x \in S}

NoResult == [err |-> FALSE, tbl |-> <<>>, calls |-> 0]

AggIdle ==
    /\ parent = <<>>
    /\ order = "pre"
    /\ rowIsView = FALSE
    /\ df = <<>>
    /\ df0 = <<>>
    /\ op = "none"
    /\ col = "t0"
    /\ res = NoResult
    /\ res2 = NoResult

ColsIdle ==
    /\ column_sets = <<>>
    /\ checked = [done |-> FALSE, err |-> FALSE, common |-> {}]

EmptyTable == [names |-> <<>>, cols |-> <<>>, index |-> {}, data |-> <<>>]

MergeIdle ==
    /\ runs = <<>>
    /\ merged = [done |-> FALSE, err |-> FALSE,
                 common |-> EmptyTable, noncommon |-> EmptyTable]
    /\ selected = [done |-> FALSE, err |-> FALSE, of |-> "none",
                   request |-> {}, tbl |-> EmptyTable]

\* the tree root->A, root->B, A->C with exclusive values root=1, A=2, B=3,
\* C=4 (root, A, B, C are the nodes 0, 1, 2, 3)
ExampleTree == (0 :> None) @@ (1 :> 0) @@ (2 :> 0) @@ (3 :> 1)
ExampleFrame == [v \in 0 .. 3 |-> [c \in Cols |-> Num(v + 1)]]

\* an exclusive frame over two (metric, thread) columns; thread t1 may have
\* no measurement (NaN) at a node, and at most one node may have no row
AggInit ==
    /\ pc = "start"
    /\ \/ \E n \in 1 .. MaxNodes :
             /\ parent \in TreeSet(n)
             /\ \E miss \in {None} \cup (0 .. n - 1) :
                   df \in Frames((0 .. n - 1) \ {miss},
                                 [c \in Cols |->
                                     IF c = "t0" THEN Nums(DfValues)
                                     ELSE {NaN} \cup Nums(DfValues)])
       \/ parent = ExampleTree /\ df = ExampleFrame
    /\ order \in {"pre", "post"}
    /\ rowIsView \in BOOLEAN
    /\ df0 = df
    /\ op = "none"
    /\ col = "t0"
    /\ res = NoResult
    /\ res2 = NoResult
    /\ ColsIdle
    /\ MergeIdle

\* an exclusive series that has a value for every node
SeriesInit ==
    /\ pc = "start"
    /\ \E n \in 1 .. MaxNodes :
          /\ parent \in TreeSet(n)
          /\ df \in Frames(0 .. n - 1, [c \in {"t0"} |-> Nums(Values)])
    /\ order \in {"pre", "post"}
    /\ rowIsView = FALSE
    /\ df0 = df
    /\ op = "none"
    /\ col = "t0"
    /\ res = NoResult
    /\ res2 = NoResult
    /\ ColsIdle
    /\ MergeIdle

----------------------------------------------------------------------------
(* Operations *)

\* the series df[c]
Column(tbl, c) == [v \in DOMAIN tbl |-> tbl[v][c]]

ColsOf(tbl) == UNION {DOMAIN tbl[v] : v \in DOMAIN tbl}

\* res = convert_series_to_inclusive(df[c], call_tree)
ConvertSeries ==
    /\ pc = "start"
    /\ \E c \in ColsOf(df) :
          /\ col' = c
          /\ res' = convert_series_to_inclusive(Column(df, c), Root)
    /\ op' = "series"
    /\ pc' = "converted"
    /\ UNCHANGED <<parent, order, rowIsView, df, df0, res2, colsVars, mergeVars>>

\* res = convert_df_to_inclusive(df, call_tree)
ConvertDf ==
    /\ pc = "start"
    /\ LET r == convert_df_to_inclusive(df, Root)
       IN /\ res' = [err |-> r.err, tbl |-> r.tbl, calls |-> r.calls]
          /\ df' = r.input
    /\ op' = "df"
    /\ pc' = "converted"
    /\ UNCHANGED <<parent, order, rowIsView, df0, col, res2, colsVars, mergeVars>>

\* res2 = convert_series_to_inclusive(res, call_tree): the conversion of an
\* already inclusive series over the same tree
ReconvertSeries ==
    /\ pc = "converted"
    /\ op = "series"
    /\ ~res.err
    /\ res2' = convert_series_to_inclusive(res.tbl, Root)
    /\ pc' = "reconverted"
    /\ UNCHANGED <<parent, order, rowIsView, df, df0, op, col, res, colsVars, mergeVars>>

AggNext == ConvertSeries \/ ConvertDf
SpecAgg == AggInit /\ [][AggNext]_vars

SeriesNext == ConvertSeries \/ ReconvertSeries
SpecSeries == SeriesInit /\ [][SeriesNext]_vars

----------------------------------------------------------------------------
(* What the conversions are checked against: the sum of the exclusive      *)
(* values over the subtree of v, from the parent relation alone            *)

RECURSIVE InSubtree(_, _)
InSubtree(u, v) == u = v \/ (parent[u] # None /\ InSubtree(parent[u], v))

Subtree(v) == {u \in Nodes : InSubtree(u, v)}

RECURSIVE CellSum(_, _)
CellSum(series, S) ==
    IF S = {} THEN Num(0)
    ELSE LET u == CHOOSE x \in S : TRUE
         IN CellAdd(series[u], CellSum(series, S \ {u}))

SubtreeSum(series, v) == CellSum(series, Subtree(v))

IsInternal(v) == \E u \in Nodes : parent[u] = v

\* the exclusive measurement has a value for every node of the tree
Complete(tbl) ==
    /\ DOMAIN tbl = Nodes
    /\ \A v \in Nodes : \A c \in DOMAIN tbl[v] : ~IsNaN(tbl[v][c])

\* the exclusive series the series conversion was given
series0 == Column(df0, col)

\* C1: for an exclusive measurement with a value for every node, both
\* conversions return at each node v the sum of the exclusive values over
\* the subtree rooted at v; the tree root->A, root->B, A->C with root=1, A=2,
\* B=3, C=4 yields root=10, A=6, B=3, C=4.
C1_InclusiveIsSubtreeSum ==
    (pc = "converted" /\ Complete(df0)) =>
        /\ ~res.err
        /\ DOMAIN res.tbl = Nodes
        /\ \A v \in Nodes :
              IF op = "series"
              THEN res.tbl[v] = SubtreeSum(series0, v)
              ELSE \A c \in Cols :
                      res.tbl[v][c] = SubtreeSum(Column(df0, c), v)
        /\ (parent = ExampleTree /\ df0 = ExampleFrame) =>
              \A v \in Nodes :
                 LET want == Num(IF v = 0 THEN 10 ELSE IF v = 1 THEN 6
                                 ELSE IF v = 2 THEN 3 ELSE 4)
                 IN IF op = "series" THEN res.tbl[v] = want
                    ELSE \A c \in Cols : res.tbl[v][c] = want

\* C2: a conversion never modifies its input: after it returned or failed,
\* every cell of the exclusive table passed in holds the value it held before.
C2_InputUnchanged == pc = "converted" => df = df0

\* thread c has no measurement at v and has one at a sibling or a descendant
ThreadGap(tbl, v, c) ==
    /\ v \in DOMAIN tbl
    /\ IsNaN(tbl[v][c])
    /\ \E u \in DOMAIN tbl :
          /\ u # v
          /\ InSubtree(u, v) \/ parent[u] = parent[v]
          /\ ~IsNaN(tbl[u][c])

\* C8: when the exclusive measurement has no value for some node, or lacks a
\* thread's value at a node while a sibling or descendant has it, the
\* conversion fails instead of returning a result.
C8_GapFails ==
    (/\ pc = "converted"
     /\ \/ DOMAIN df0 # Nodes
        \/ op = "df" /\ \E v \in Nodes : \E c \in Cols : ThreadGap(df0, v, c))
    => res.err

\* C10: a conversion of a tree with n nodes runs the aggregate step n times
\* in total, once per node.
C10_OneAggregatePerNode ==
    (pc = "converted" /\ ~res.err) => res.calls = Cardinality(Nodes)

\* C9 as stated: for a tree with an internal node whose exclusive value is
\* nonzero, converting the already inclusive series again yields a series
\* that differs from the inclusive one.
C9_AsStated ==
    (/\ pc = "reconverted"
     /\ \E v \in Nodes : IsInternal(v) /\ series0[v] # Num(0))
    => res2.tbl # res.tbl

\* the inclusive values of the children of v do not sum to zero
ChildrenWeigh(v) ==
    CellSum([u \in Nodes |-> SubtreeSum(series0, u)],
            {u \in Nodes : parent[u] = v}) # Num(0)

\* C9 (amended): for a tree with an internal node whose children's inclusive
\* values do not sum to zero, converting the already inclusive series again
\* yields a series that differs from the inclusive one; for every other tree
\* it yields the inclusive series again.
C9_Reconversion ==
    pc = "reconverted" =>
        /\ ~res2.err
        /\ (res2.tbl # res.tbl) <=> (\E v \in Nodes : ChildrenWeigh(v))

C9_Witness ==
    /\ pc = "reconverted"
    /\ \E v \in Nodes : ChildrenWeigh(v)
    /\ \E v \in Nodes : res2.tbl[v] # res.tbl[v]

----------------------------------------------------------------------------
(* check_column_sets *)

\* set.intersection(*column_sets)
RECURSIVE set_intersection(_)
set_intersection(sets) ==
    IF Len(sets) = 1 THEN sets[1]
    ELSE sets[1] \cap set_intersection(Tail(sets))

\* column_set.difference(common_cols)
(* (mutant) the common columns are not taken out *)
difference_kept(column_set, common_cols) == column_set

difference(column_set, common_cols) == column_set \ common_cols

\* itertools.combinations(range(n), 2), in its order
RECURSIVE combinations(_, _, _)
combinations(n, i, j) ==
    IF i >= n THEN <<>>
    ELSE IF j > n THEN combinations(n, i + 1, i + 2)
    ELSE <<(<<i, j>>)>> \o combinations(n, i, j + 1)

\* for nccs1, nccs2 in combinations(..): assert len(nccs1 & nccs2) == 0
RECURSIVE assert_disjoint(_, _, _)
assert_disjoint(nccs, pairs, k) ==
    IF k > Len(pairs) THEN FALSE
    ELSE IF nccs[pairs[k][1]] \cap nccs[pairs[k][2]] # {} THEN TRUE
    ELSE assert_disjoint(nccs, pairs, k + 1)

(* (mutant) only the first pair is compared *)
check_first_pair_only(sets) ==
    LET common_cols == set_intersection(sets)
        nccs == [i \in DOMAIN sets |-> difference(sets[i], common_cols)]
    IN [done |-> TRUE,
        err |-> Len(sets) >= 2 /\ nccs[1] \cap nccs[2] # {},
        common |-> common_cols]

\* check_column_sets(column_sets): err is the AssertionError
check_column_sets(sets) ==
    LET common_cols == set_intersection(sets)
        noncommon_columns_df ==
            [i \in DOMAIN sets |-> difference(sets[i], common_cols)]
    IN [done |-> TRUE,
        err |-> assert_disjoint(noncommon_columns_df,
                                combinations(Len(sets), 1, 2), 1),
        common |-> common_cols]

ColsInit ==
    /\ pc = "start"
    /\ \E n \in 1 .. MaxRuns : column_sets \in [1 .. n -> SUBSET ColNames]
    /\ checked = [done |-> FALSE, err |-> FALSE, common |-> {}]
    /\ AggIdle
    /\ MergeIdle

CheckColumnSets ==
    /\ pc = "start"
    /\ checked' = check_column_sets(column_sets)
    /\ pc' = "checked"
    /\ UNCHANGED <<aggVars, column_sets, mergeVars>>

ColsNext == CheckColumnSets
SpecCols == ColsInit /\ [][ColsNext]_vars

\* the names every set holds
CommonCore == {m \in ColNames : \A i \in DOMAIN column_sets : m \in column_sets[i]}

Clash ==
    \E i, j \in DOMAIN column_sets :
        /\ i # j
        /\ (column_sets[i] \ CommonCore) \cap (column_sets[j] \ CommonCore) # {}

\* C3: for N >= 2 metric-name sets check_column_sets fails if and only if two
\* of the sets share a name outside the intersection of all of them;
\* {a,b,c}, {a,b,d}, {a,b,e} passes with common {a,b}.
C3_FailsIffClash ==
    (pc = "checked" /\ Len(column_sets) >= 2) =>
        /\ checked.err <=> Clash
        /\ column_sets = <<{"a", "b", "c"}, {"a", "b", "d"}, {"a", "b", "e"}>>
              => ~checked.err /\ checked.common = {"a", "b"}

C3_Witness ==
    /\ pc = "checked"
    /\ Len(column_sets) = 3
    /\ column_sets[1] \cap column_sets[3] = {"c"}
    /\ column_sets[1] \cap column_sets[2] = {}
    /\ checked.err

\* C4 as stated: for S1 = {a,b,c}, S2 = {a,c,d} check_column_sets fails.
C4_AsStated ==
    (pc = "checked" /\ column_sets = <<{"a", "b", "c"}, {"a", "c", "d"}>>)
        => checked.err

\* C4 (amended): for S1 = {a,b,c}, S2 = {a,c,d} check_column_sets completes
\* without error: c is in both sets, so it is common ({a,c}), and the
\* remainders {b} and {d} share nothing.
C4_ExamplePasses ==
    (pc = "checked" /\ column_sets = <<{"a", "b", "c"}, {"a", "c", "d"}>>)
        => ~checked.err /\ checked.common = {"a", "c"}

C4_Witness ==
    /\ pc = "checked"
    /\ column_sets = <<{"a", "b", "c"}, {"a", "c", "d"}>>
    /\ ~checked.err

----------------------------------------------------------------------------
(* Frames with labelled columns: names are the names of the column levels,  *)
(* cols the column labels in order (a label is a tuple, one entry per       *)
(* level; labels may repeat), index the row keys, data the cells            *)

\* the metric names of the runs, in the order a frame lists them
MetricOrder == <<"time", "visits">>
Callpaths == {"main", "main/f"}
Threads == {0, 1}

\* an unnamed column level (None)
NoName == "None"

\* the value run i measured for metric m at row k = (Full Callpath, Thread ID)
Measured(i, k, m) == <<i, k[1], k[2], m>>

Cell(T, k, j) == IF k \in T.index THEN T.data[<<k, j>>] ELSE NaN

\* the labels of column level lvl: set(df.columns), df.columns.levels[lvl]
LabelsAt(T, lvl) == {T.cols[j][lvl] : j \in DOMAIN T.cols}

\* the positions, from j on, of the columns whose level lvl is in S
RECURSIVE PosWhere(_, _, _, _)
PosWhere(cols, S, lvl, j) ==
    IF j > Len(cols) THEN <<>>
    ELSE (IF cols[j][lvl] \in S THEN <<j>> ELSE <<>>)
         \o PosWhere(cols, S, lvl, j + 1)

\* the frame of the columns at the positions J
take(T, J) ==
    [names |-> T.names,
     cols |-> [n \in 1 .. Len(J) |-> T.cols[J[n]]],
     index |-> T.index,
     data |-> [x \in T.index \X (1 .. Len(J)) |-> T.data[<<x[1], J[x[2]]>>]]]

\* df.loc[:, S]
loc_columns(T, S) == take(T, PosWhere(T.cols, S, 1, 1))

\* df.drop(S, axis='columns')
drop_columns(T, S) == take(T, PosWhere(T.cols, LabelsAt(T, 1) \ S, 1, 1))

\* process_cubex(profile_files[i])['df']: the dump merged with the call tree
\* on 'Cnode ID'; a row is identified by its Full Callpath and Thread ID
process_cubex(i) ==
    LET labels == <<"Cnode ID", "Function Name", "Parent Cnode ID">>
                  \o SelectSeq(MetricOrder, LAMBDA m : m \in runs[i].metrics)
    IN [names |-> <<NoName>>,
        cols |-> [j \in DOMAIN labels |-> <<labels[j]>>],
        index |-> runs[i].keys,
        data |-> [x \in runs[i].keys \X DOMAIN labels |->
                     Measured(i, x[1], labels[x[2]])]]

\* adjust_df(df): drop the call-tree columns, index by (Full Callpath, Thread ID)
adjust_df(T) ==
    drop_columns(T, {"Cnode ID", "Function Name", "Parent Cnode ID"})

\* df2.columns = pd.MultiIndex.from_tuples([(i, col) ..], names=['run','metric'])
set_run_columns(T, i) ==
    [T EXCEPT !.names = <<"run", "metric">>,
              !.cols = [j \in DOMAIN T.cols |-> <<i, T.cols[j][1]>>]]

(* (mutant) join='outer': the rows of any frame *)
join_outer(a, b) == a \cup b

\* join='inner': the rows both frames have
join_inner(a, b) == a \cap b

\* pd.concat([A, B], axis='columns', join='inner')
concat2(A, B) ==
    LET idx == join_inner(A.index, B.index)
        la == Len(A.cols)
    IN [names |-> A.names,
        cols |-> A.cols \o B.cols,
        index |-> idx,
        data |-> [x \in idx \X (1 .. la + Len(B.cols)) |->
                     IF x[2] <= la THEN Cell(A, x[1], x[2])
                     ELSE Cell(B, x[1], x[2] - la)]]

\* pd.concat(frames, axis='columns', join='inner')
RECURSIVE concat(_)
concat(frames) ==
    IF Len(frames) = 1 THEN frames[1]
    ELSE concat2(concat(SubSeq(frames, 1, Len(frames) - 1)),
                 frames[Len(frames)])

\* df.unstack('Thread ID'): the threads become the last column level; a
\* (callpath, thread) that is no row of df becomes a NaN cell
unstack(T) ==
    LET ths == SortedSeq({k[2] : k \in T.index})
        nt == Len(ths)
        idx == {k[1] : k \in T.index}
        J(n) == ((n - 1) \div nt) + 1
        Th(n) == ths[((n - 1) % nt) + 1]
    IN [names |-> T.names \o <<"Thread ID">>,
        cols |-> [n \in 1 .. Len(T.cols) * nt |-> T.cols[J(n)] \o <<Th(n)>>],
        index |-> idx,
        data |-> [x \in idx \X (1 .. Len(T.cols) * nt) |->
                     Cell(T, <<x[1], Th(x[2])>>, J(x[2]))]]

\* tmp: Full Callpath -> Cnode ID, from the first file's call tree
tmp == [cp \in Callpaths |-> IF cp = "main" THEN 0 ELSE 1]

\* .join(tmp, how='inner').set_index('Cnode ID')
rekey(T) ==
    LET kept == T.index \cap DOMAIN tmp
        path(id) == CHOOSE cp \in kept : tmp[cp] = id
        idx == {tmp[cp] : cp \in kept}
    IN [names |-> T.names,
        cols |-> T.cols,
        index |-> idx,
        data |-> [x \in idx \X DOMAIN T.cols |-> T.data[<<path(x[1]), x[2]>>]]]

replace_fcpath_with_cnodeID(T) == rekey(unstack(T))

\* process_multi(profile_files)
process_multi(n) ==
    LET dfs == [i \in 1 .. n |-> process_cubex(i)]
        dfs2 == [i \in 1 .. n |-> adjust_df(dfs[i])]
        columns_df == [i \in 1 .. n |-> LabelsAt(dfs2[i], 1)]
        common_cols == set_intersection(columns_df)
        dfs2_common ==
            [i \in 1 .. n |->
                set_run_columns(loc_columns(dfs2[i], common_cols), i - 1)]
        df_common == concat(dfs2_common)
        noncommon_columns_df == [i \in 1 .. n |-> columns_df[i] \ common_cols]
        dfs2_noncommon ==
            [i \in 1 .. n |-> loc_columns(dfs2[i], noncommon_columns_df[i])]
        df_noncommon == concat(dfs2_noncommon)
    IN [done |-> TRUE,
        err |-> FALSE,
        common |-> replace_fcpath_with_cnodeID(df_common),
        noncommon |-> replace_fcpath_with_cnodeID(df_noncommon)]

----------------------------------------------------------------------------
(* select_metrics *)

\* df.columns.names.index('metric'); 0 stands for the ValueError
names_index(names, name) ==
    IF \E l \in DOMAIN names : names[l] = name
    THEN CHOOSE l \in DOMAIN names :
            /\ names[l] = name
            /\ \A l2 \in 1 .. l - 1 : names[l2] # name
    ELSE 0

\* set(selected_metrics).intersection(set(df.columns.levels[metric_level]))
possible(selected_metrics, present) == selected_metrics \cap present

\* select_metrics(df, selected_metrics); a requested label that no column
\* has is the KeyError of df.loc
select_metrics(T, selected_metrics) ==
    LET metric_level == names_index(T.names, "metric")
        possible_metrics ==
            possible(selected_metrics, LabelsAt(T, metric_level))
    IN IF metric_level = 0 THEN [err |-> TRUE, tbl |-> EmptyTable]
       ELSE IF ~(possible_metrics \subseteq LabelsAt(T, metric_level))
       THEN [err |-> TRUE, tbl |-> EmptyTable]
       ELSE [err |-> FALSE,
             tbl |-> take(T, PosWhere(T.cols, possible_metrics,
                                      metric_level, 1))]

----------------------------------------------------------------------------
(* Runs *)

\* the metric sets a run may report
MetricSets == {{"time"}, {"time", "visits"}}

\* the (Full Callpath, Thread ID) rows a run may report: thread 0 always
\* reports the root, thread 1 may report it too; the callee is reported by
\* no thread, by thread 1 or by both
KeySets ==
    {ks \in SUBSET (Callpaths \X Threads) :
        /\ <<"main", 0>> \in ks
        /\ <<"main/f", 0>> \in ks => <<"main/f", 1>> \in ks}

\* the metric names a caller may ask select_metrics for
Requests == {{"time", "bogus"}, {"bogus"}}

MergeInit ==
    /\ pc = "start"
    /\ \E n \in 1 .. MaxRuns :
          runs \in [1 .. n -> [metrics : MetricSets, keys : KeySets]]
    /\ merged = [done |-> FALSE, err |-> FALSE,
                 common |-> EmptyTable, noncommon |-> EmptyTable]
    /\ selected = [done |-> FALSE, err |-> FALSE, of |-> "none",
                   request |-> {}, tbl |-> EmptyTable]
    /\ AggIdle
    /\ ColsIdle

\* call_tree, df_common, df_noncommon = process_multi(profile_files)
ProcessMulti ==
    /\ pc = "start"
    /\ merged' = process_multi(Len(runs))
    /\ pc' = "merged"
    /\ UNCHANGED <<aggVars, colsVars, runs, selected>>

\* select_metrics(df_common, request), select_metrics(df_noncommon, request)
SelectMetrics ==
    /\ pc = "merged"
    /\ \E which \in {"common", "noncommon"}, request \in Requests :
          LET r == select_metrics(merged[which], request)
          IN selected' = [done |-> TRUE, err |-> r.err, of |-> which,
                          request |-> request, tbl |-> r.tbl]
    /\ pc' = "selected"
    /\ UNCHANGED <<aggVars, colsVars, runs, merged>>

MergeNext == ProcessMulti \/ SelectMetrics
SpecMerge == MergeInit /\ [][MergeNext]_vars

----------------------------------------------------------------------------
(* Claims about process_multi and select_metrics *)

RunIds == DOMAIN runs

\* the metric names that occur in at least two runs but not in all runs
Ambiguous ==
    {m \in UNION {runs[i].metrics : i \in RunIds} :
        /\ \E i, j \in RunIds : i # j /\ m \in runs[i].metrics \cap runs[j].metrics
        /\ \E i \in RunIds : m \notin runs[i].metrics}

\* the runs whose measurements of metric m (column level lvl) the frame holds
RunsHolding(T, lvl, m) ==
    {T.data[x][1] : x \in {y \in DOMAIN T.data :
                             /\ T.cols[y[2]][lvl] = m
                             /\ ~IsNaN(T.data[y])}}

\* C5: a merge of runs whose metric sets violate the partition invariant
\* fails with a consistency error and returns no tables; it never returns a
\* specific table that holds such a metric for more than one run.
C5_AmbiguousMergeFails ==
    (pc = "merged" /\ Ambiguous # {}) =>
        /\ merged.err
        /\ \A m \in Ambiguous :
              Cardinality(RunsHolding(merged.noncommon, 1, m)) <= 1

\* the (Full Callpath, Thread ID) keys every run has, and those some run has
KeysOfAll == {k \in Callpaths \X Threads : \A i \in RunIds : k \in runs[i].keys}
KeysOfAny == UNION {runs[i].keys : i \in RunIds}

\* a key in the first run's node numbering
Canonical(K) == {<<IF k[1] = "main" THEN 0 ELSE 1, k[2]>> : k \in K}

ThreadOf(label) == label[Len(label)]

\* the (Cnode ID, Thread ID) combinations for which some column of the frame
\* holds a measurement, and those for which every column of the thread does
DataKeys(T) ==
    {x \in T.index \X Threads :
        \E j \in DOMAIN T.cols :
            ThreadOf(T.cols[j]) = x[2] /\ ~IsNaN(T.data[<<x[1], j>>])}

FullKeys(T) ==
    {x \in DataKeys(T) :
        \A j \in DOMAIN T.cols :
            ThreadOf(T.cols[j]) = x[2] => ~IsNaN(T.data[<<x[1], j>>])}

Covers(T) ==
    IF Len(T.cols) = 0 THEN DataKeys(T) = {}
    ELSE /\ DataKeys(T) = Canonical(KeysOfAll)
         /\ FullKeys(T) = Canonical(KeysOfAll)

\* C6: the (node, thread) combinations for which the common table, and
\* likewise the specific table, carries data are exactly the combinations
\* every run has (the intersection, not the union), in the first run's node
\* numbering; a table without metric columns carries no data.
C6_RowCoverage ==
    pc = "merged" => Covers(merged.common) /\ Covers(merged.noncommon)

C6_Witness ==
    /\ pc = "merged"
    /\ Len(runs) = 3
    /\ KeysOfAll # KeysOfAny
    /\ \E i, j \in RunIds :
          <<"main", 1>> \in runs[i].keys \ runs[j].keys
    /\ <<1, 1>> \in DataKeys(merged.common)
    /\ <<0, 1>> \notin DataKeys(merged.common)
    /\ DataKeys(merged.noncommon) = Canonical(KeysOfAll)

\* the column level that holds the metric names
MetricLevelOf(which) == IF which = "common" THEN 2 ELSE 1

\* the frame S is the frame T cut down to the columns whose metric is in want
Restricts(S, T, lvl, want) ==
    LET J == {j \in DOMAIN T.cols : T.cols[j][lvl] \in want}
    IN /\ S.index = T.index
       /\ S.names = T.names
       /\ Len(S.cols) = Cardinality(J)
       /\ \E f \in [DOMAIN S.cols -> J] :
             /\ \A a, b \in DOMAIN S.cols : a < b => f[a] < f[b]
             /\ \A a \in DOMAIN S.cols :
                   /\ S.cols[a] = T.cols[f[a]]
                   /\ \A r \in T.index : S.data[<<r, a>>] = T.data[<<r, f[a]>>]

\* C7: for every merged table (here: one that has columns) and every
\* requested set of names, select_metrics returns exactly the columns whose
\* metric is both requested and present, rows and other levels unchanged,
\* and never an error.
C7_SelectsIntersection ==
    (pc = "selected" /\ Len(merged[selected.of].cols) > 0) =>
        LET T == merged[selected.of]
            lvl == MetricLevelOf(selected.of)
        IN /\ ~selected.err
           /\ Restricts(selected.tbl, T, lvl,
                        selected.request \cap LabelsAt(T, lvl))

====
